---- MODULE Spec2Model ----
(***************************************************************************)
(* A model of builders/cmip.py: the two DRS parsers (cmip6_parser,         *)
(* cmip5_parser), the version selector (_pick_latest_version) and the      *)
(* catalog pipeline (build_cmip, cli).                                     *)
(*                                                                         *)
(* A Python str is a sequence of one-character strings, so that split,     *)
(* strip, startswith, the regex searches and the string comparison used by *)
(* sort_values are computed character by character.  Python's None is the  *)
(* value None, the float NaN is the value NaN, and a float f is            *)
(* <<"float", f>>.                                                         *)
(***************************************************************************)
EXTENDS Integers, Sequences, FiniteSets, TLC

VARIABLES
    filepath,      \* parsers: the argument of the parser call
    fileparts,     \* parsers: the mapping the parser returned
    raised,        \* parsers: line whose exception the except clause swallowed, 0 if none
    ppc,           \* parsers: "input", then "cmip6" or "cmip5" once the parser returned
    df,            \* _pick_latest_version: the argument df, a sequence of [index, row]
    groups,        \* _pick_latest_version: the groups of df.groupby(grpby)
    idx_to_remove, \* _pick_latest_version: per group, Pending or the list the task returned
    df_out,        \* _pick_latest_version: the frame returned
    kpc,           \* _pick_latest_version: "call", "tasks", "done"
    args,          \* build_cmip / cli: the arguments of the run
    filelist,      \* build_cmip: what get_asset_list returned
    cat,           \* build_cmip: the local df of build_cmip
    activity_ids,  \* build_cmip: the keys of the fetched document, {} before the fetch
    traversed,     \* build_cmip: get_asset_list has been called
    steps,         \* build_cmip / cli: the calls made so far, in order
    err,           \* build_cmip / cli: the exception that ended the run, NoError if none
    bpc            \* build_cmip / cli: position in the run

vars == <<filepath, fileparts, raised, ppc, df, groups, idx_to_remove, df_out, kpc,
          args, filelist, cat, activity_ids, traversed, steps, err, bpc>>

parseVars == <<filepath, fileparts, raised, ppc>>

pickVars == <<df, groups, idx_to_remove, df_out, kpc>>

buildVars == <<args, filelist, cat, activity_ids, traversed, steps, err, bpc>>

(***************************************************************************)
(* Bounds                                                                  *)
(***************************************************************************)
MaxDropped == 2

MaxRows == 3

MaxFiles == 2

(***************************************************************************)
(* Python values                                                           *)
(***************************************************************************)
None == <<"None">>

NaN == <<"NaN">>

Float(n) == <<"float", n>>

isna(v) == v = None \/ v = NaN

\* the value of err while no exception has ended the run
NoError == "none"

EmptyDict == [k \in {} |-> None]

SetItem(d, k, v) == (k :> v) @@ d

SetMin(S) == CHOOSE x \in S : \A y \in S : x <= y

SetMax(S) == CHOOSE x \in S : \A y \in S : x >= y

(***************************************************************************)
(* Python str operations                                                   *)
(***************************************************************************)
ord ==
    "-" :> 45 @@ "." :> 46 @@ "/" :> 47 @@ "0" :> 48 @@ "1" :> 49 @@
    "2" :> 50 @@ "3" :> 51 @@ "4" :> 52 @@ "5" :> 53 @@ "6" :> 54 @@
    "7" :> 55 @@ "8" :> 56 @@ "9" :> 57 @@ "A" :> 65 @@ "B" :> 66 @@
    "C" :> 67 @@ "D" :> 68 @@ "E" :> 69 @@ "F" :> 70 @@ "G" :> 71 @@
    "H" :> 72 @@ "I" :> 73 @@ "J" :> 74 @@ "K" :> 75 @@ "L" :> 76 @@
    "M" :> 77 @@ "N" :> 78 @@ "O" :> 79 @@ "P" :> 80 @@ "Q" :> 81 @@
    "R" :> 82 @@ "S" :> 83 @@ "T" :> 84 @@ "U" :> 85 @@ "V" :> 86 @@
    "W" :> 87 @@ "X" :> 88 @@ "Y" :> 89 @@ "Z" :> 90 @@ "_" :> 95 @@
    "a" :> 97 @@ "b" :> 98 @@ "c" :> 99 @@ "d" :> 100 @@ "e" :> 101 @@
    "f" :> 102 @@ "g" :> 103 @@ "h" :> 104 @@ "i" :> 105 @@ "j" :> 106 @@
    "k" :> 107 @@ "l" :> 108 @@ "m" :> 109 @@ "n" :> 110 @@ "o" :> 111 @@
    "p" :> 112 @@ "q" :> 113 @@ "r" :> 114 @@ "s" :> 115 @@ "t" :> 116 @@
    "u" :> 117 @@ "v" :> 118 @@ "w" :> 119 @@ "x" :> 120 @@ "y" :> 121 @@
    "z" :> 122

isdigit(c) == c \in {"0", "1", "2", "3", "4", "5", "6", "7", "8", "9"}

Slash == <<"/">>

OccursAt(s, i, sub) ==
    /\ i >= 1
    /\ i + Len(sub) - 1 <= Len(s)
    /\ \A k \in 1..Len(sub) : s[i + k - 1] = sub[k]

\* str.find, 1-based; 0 when sub does not occur
find(s, sub) ==
    LET hits == {i \in 1..Len(s) : OccursAt(s, i, sub)}
    IN IF hits = {} THEN 0 ELSE SetMin(hits)

\* str.rfind of a single character
rfind(s, c) ==
    LET hits == {i \in 1..Len(s) : s[i] = c}
    IN IF hits = {} THEN 0 ELSE SetMax(hits)

RECURSIVE split(_, _)
\* str.split(sep) for a non-empty sep: left to right, non-overlapping
split(s, sep) ==
    LET i == find(s, sep)
    IN IF i = 0 THEN <<s>>
       ELSE <<SubSeq(s, 1, i - 1)>> \o split(SubSeq(s, i + Len(sep), Len(s)), sep)

\* str.strip(chars)
strip(s, chars) ==
    LET keep == {i \in 1..Len(s) : s[i] \notin chars}
    IN IF keep = {} THEN <<>> ELSE SubSeq(s, SetMin(keep), SetMax(keep))

rstrip(s, chars) ==
    LET keep == {i \in 1..Len(s) : s[i] \notin chars}
    IN IF keep = {} THEN <<>> ELSE SubSeq(s, 1, SetMax(keep))

startswith(s, prefix) == OccursAt(s, 1, prefix)

RECURSIVE join(_, _)
join(sep, parts) ==
    IF parts = <<>> THEN <<>>
    ELSE IF Len(parts) = 1 THEN parts[1]
    ELSE parts[1] \o sep \o join(sep, Tail(parts))

\* os.path.basename (posixpath)
basename(p) == SubSeq(p, rfind(p, "/") + 1, Len(p))

\* os.path.dirname (posixpath)
dirname(p) ==
    LET head == SubSeq(p, 1, rfind(p, "/"))
    IN IF head # <<>> /\ \E i \in 1..Len(head) : head[i] # "/"
       THEN rstrip(head, {"/"}) ELSE head

RECURSIVE DecimalValue(_)
DecimalValue(s) ==
    IF s = <<>> THEN 0
    ELSE 10 * DecimalValue(SubSeq(s, 1, Len(s) - 1)) + (ord[s[Len(s)]] - 48)

\* float(s) succeeds; exact for strings of digits and for strings holding a
\* letter that no float literal contains (the strings the inputs produce)
FloatConverts(s) == s # <<>> /\ \A i \in 1..Len(s) : isdigit(s[i])

\* s1 < s2 as Python compares str: by code point, a proper prefix is smaller
StrLess(s1, s2) ==
    LET shorter == IF Len(s1) < Len(s2) THEN Len(s1) ELSE Len(s2)
        differ == {i \in 1..shorter : s1[i] # s2[i]}
    IN IF differ = {} THEN Len(s1) < Len(s2)
       ELSE ord[s1[SetMin(differ)]] < ord[s2[SetMin(differ)]]

(***************************************************************************)
(* Regular expressions: an ordered list of alternatives, each a sequence   *)
(* of atoms; the atom Digit is \d, any other atom is a literal character.  *)
(***************************************************************************)
Digit == "\\d"

AtomMatches(a, c) == IF a = Digit THEN isdigit(c) ELSE a = c

AltMatchesAt(s, i, alt) ==
    /\ i + Len(alt) - 1 <= Len(s)
    /\ \A k \in 1..Len(alt) : AtomMatches(alt[k], s[i + k - 1])

\* re.search: leftmost position, first alternative that matches there
re_search(regex, s) ==
    LET hits == {i \in 1..Len(s) : \E j \in 1..Len(regex) : AltMatchesAt(s, i, regex[j])}
    IN IF hits = {} THEN None
       ELSE LET i == SetMin(hits)
                j == SetMin({k \in 1..Len(regex) : AltMatchesAt(s, i, regex[k])})
            IN SubSeq(s, i, i + Len(regex[j]) - 1)

version_regex ==
    << <<"v", Digit, Digit, Digit, Digit, Digit, Digit, Digit, Digit>>,
       <<"v", Digit>> >>

freq_regex ==
    << <<"/","3","h","r","/">>, <<"/","6","h","r","/">>, <<"/","d","a","y","/">>, <<"/","f","x","/">>, <<"/","m","o","n","/">>, <<"/","m","o","n","C","l","i","m","/">>, <<"/","s","u","b","h","r","/">>, <<"/","y","r","/">> >>

realm_regex ==
    << <<"a","e","r","o","s","o","l">>, <<"a","t","m","o","s">>, <<"l","a","n","d">>, <<"l","a","n","d","I","c","e">>, <<"o","c","e","a","n">>, <<"o","c","n","B","g","c","h","e","m">>, <<"s","e","a","I","c","e">> >>

v0 == <<"v","0">>

(***************************************************************************)
(* core.extract_attr_with_regex and core.reverse_filename_format           *)
(***************************************************************************)
\* strip_chars = {} stands for strip_chars=None
extract_attr_with_regex(input_str, regex, strip_chars) ==
    LET match == re_search(regex, input_str)
    IN IF match = None THEN None
       ELSE IF strip_chars = {} THEN match
       ELSE strip(match, strip_chars)

\* A template is the list of its placeholders; its literals are "_" between
\* two placeholders and ".nc" at the end.
TemplateMatches(file_basename, template) ==
    /\ Len(file_basename) >= 3
    /\ SubSeq(file_basename, Len(file_basename) - 2, Len(file_basename)) = <<".","n","c">>
    /\ Len(split(SubSeq(file_basename, 1, Len(file_basename) - 3), <<"_">>)) = Len(template)

TemplateBind(file_basename, template) ==
    LET parts == split(SubSeq(file_basename, 1, Len(file_basename) - 3), <<"_">>)
    IN [k \in {template[i] : i \in 1..Len(template)} |->
          parts[CHOOSE i \in 1..Len(template) : template[i] = k]]

\* first template in list order that matches; the empty mapping when none does
reverse_filename_format(file_basename, templates) ==
    LET ok == {j \in 1..Len(templates) : TemplateMatches(file_basename, templates[j])}
    IN IF ok = {} THEN EmptyDict
       ELSE TemplateBind(file_basename, templates[SetMin(ok)])

(***************************************************************************)
(* cmip6_parser                                                            *)
(***************************************************************************)
cmip6_templates ==
    << <<"variable_id", "table_id", "source_id", "experiment_id", "member_id",
         "grid_label", "time_range">>,
       <<"variable_id", "table_id", "source_id", "experiment_id", "member_id",
         "grid_label">> >>

\* a faulty variant of cmip6_member_step that converts pieces[0] instead of
\* pieces[0][1:], so that the leading 's' reaches float()
cmip6_member_step_keeps_prefix(fp) ==
    IF startswith(fp["member_id"], <<"s">>)
    THEN LET pieces == split(fp["member_id"], <<"-">>)
             year == pieces[1]
         IN IF FloatConverts(year)
            THEN [fileparts |->
                     SetItem(SetItem(fp, "dcpp_init_year", Float(DecimalValue(year))),
                             "member_id", pieces[Len(pieces)]),
                  raised |-> 0]
            ELSE [fileparts |-> fp, raised |-> 53]
    ELSE [fileparts |-> SetItem(fp, "dcpp_init_year", NaN), raised |-> 0]

\* a faulty variant of cmip6_member_step that runs line 54 before line 53,
\* so that member_id is rewritten even when the conversion raises
cmip6_member_step_rewrites_first(fp) ==
    IF startswith(fp["member_id"], <<"s">>)
    THEN LET pieces == split(fp["member_id"], <<"-">>)
             year == Tail(pieces[1])
             fp54 == SetItem(fp, "member_id", pieces[Len(pieces)])
         IN IF FloatConverts(year)
            THEN [fileparts |-> SetItem(fp54, "dcpp_init_year", Float(DecimalValue(year))),
                  raised |-> 0]
            ELSE [fileparts |-> fp54, raised |-> 53]
    ELSE [fileparts |-> SetItem(fp, "dcpp_init_year", NaN), raised |-> 0]

\* lines 52-56: the member_id post-processing, on the mapping of line 51
cmip6_member_step(fp) ==
    IF startswith(fp["member_id"], <<"s">>)
    THEN LET pieces == split(fp["member_id"], <<"-">>)
             year == Tail(pieces[1])
         IN IF FloatConverts(year)
            THEN [fileparts |->
                     SetItem(SetItem(fp, "dcpp_init_year", Float(DecimalValue(year))),
                             "member_id", pieces[Len(pieces)]),
                  raised |-> 0]
            ELSE [fileparts |-> fp, raised |-> 53]
    ELSE [fileparts |-> SetItem(fp, "dcpp_init_year", NaN), raised |-> 0]

\* a faulty variant of cmip6_assign_step without the "or 'v0'" of line 49
cmip6_assign_step_no_default(fp, path, parent, part_1, grid_label) ==
    LET fp45 == SetItem(fp, "grid_label", grid_label)
    IN IF Len(part_1) < 2 THEN [fileparts |-> fp45, raised |-> 46]
       ELSE LET fp47 == SetItem(SetItem(fp45, "activity_id", part_1[Len(part_1) - 1]),
                                "institution_id", part_1[Len(part_1)])
                version == extract_attr_with_regex(parent, version_regex, {})
            IN cmip6_member_step(SetItem(SetItem(fp47, "version", version), "path", path))

\* lines 45-51, given the values of lines 41-44
cmip6_assign_step(fp, path, parent, part_1, grid_label) ==
    LET fp45 == SetItem(fp, "grid_label", grid_label)
    IN IF Len(part_1) < 2 THEN [fileparts |-> fp45, raised |-> 46]
       ELSE LET fp47 == SetItem(SetItem(fp45, "activity_id", part_1[Len(part_1) - 1]),
                                "institution_id", part_1[Len(part_1)])
                found == extract_attr_with_regex(parent, version_regex, {})
                version == IF found = None THEN v0 ELSE found
            IN cmip6_member_step(SetItem(SetItem(fp47, "version", version), "path", path))

\* the whole call: the mapping returned and the line that raised (0: none)
cmip6_run(path) ==
    LET fp == reverse_filename_format(basename(path), cmip6_templates)
    IN IF "source_id" \notin DOMAIN fp THEN [fileparts |-> fp, raised |-> 42]
       ELSE LET parent == strip(dirname(path), {"/"})
                parent_split == split(parent, Slash \o fp["source_id"] \o Slash)
                part_1 == split(strip(parent_split[1], {"/"}), Slash)
                var_split == split(parent, Slash \o fp["variable_id"] \o Slash)
            IN IF Len(var_split) < 2 THEN [fileparts |-> fp, raised |-> 44]
               ELSE cmip6_assign_step(fp, path, parent, part_1,
                        split(strip(var_split[2], {"/"}), Slash)[1])

cmip6_parser(path) == cmip6_run(path).fileparts

(***************************************************************************)
(* cmip5_parser                                                            *)
(***************************************************************************)
cmip5_templates ==
    << <<"variable", "mip_table", "model", "experiment", "ensemble_member",
         "temporal_subset">>,
       <<"variable", "mip_table", "model", "experiment", "ensemble_member">> >>

\* lines 92-98, on the mapping of line 91
cmip5_institute_step(fp, path) ==
    IF "experiment" \notin DOMAIN fp \/ fp["experiment"] = <<>>
    THEN [fileparts |-> fp, raised |-> 93]
    ELSE LET halves == split(dirname(path), fp["experiment"])
         IN IF Len(halves) # 2 THEN [fileparts |-> fp, raised |-> 93]
            ELSE LET part1 == split(strip(halves[1], {"/"}), Slash)
                 IN IF Len(part1) < 2 THEN [fileparts |-> fp, raised |-> 95]
                    ELSE LET fp95 == SetItem(fp, "institute", part1[Len(part1) - 1])
                         IN IF Len(part1) < 3 THEN [fileparts |-> fp95, raised |-> 96]
                            ELSE [fileparts |->
                                     SetItem(fp95, "product_id", part1[Len(part1) - 2]),
                                  raised |-> 0]

cmip5_run(path) ==
    LET fp == reverse_filename_format(basename(path), cmip5_templates)
        frequency == extract_attr_with_regex(path, freq_regex, {"/"})
        realm == extract_attr_with_regex(path, realm_regex, {})
        found == extract_attr_with_regex(path, version_regex, {})
        version == IF found = None THEN v0 ELSE found
        fp91 == SetItem(SetItem(SetItem(SetItem(fp, "frequency", frequency),
                    "modeling_realm", realm), "version", version), "path", path)
    IN cmip5_institute_step(fp91, path)

cmip5_parser(path) == cmip5_run(path).fileparts

(***************************************************************************)
(* Input paths of the parsers: the DRS directory layouts with up to        *)
(* MaxDropped directory levels missing, and filenames of every shape.      *)
(***************************************************************************)
RECURSIVE DropLevels(_, _, _)
\* the segments of layout whose positions (counted from i) are not in dropped
DropLevels(layout, dropped, i) ==
    IF layout = <<>> THEN <<>>
    ELSE IF i \in dropped THEN DropLevels(Tail(layout), dropped, i + 1)
    ELSE <<Head(layout)>> \o DropLevels(Tail(layout), dropped, i + 1)

DropSets(n) == {d \in SUBSET (1..n) : Cardinality(d) <= MaxDropped}

PathOf(segments, name) ==
    IF segments = <<>> THEN Slash \o name
    ELSE Slash \o join(Slash, segments) \o Slash \o name

Members == { <<"r","1","i","1","p","1","f","1">>, <<"s","1","9","6","0","-","r","2","i","1","p","1","f","1">>, <<"s","x","1","-","r","2","i","1","p","1","f","1">>, <<"s","1","9","6","0">>, <<"s","1","9","6","0","-","a","-","r","2","i","1","p","1","f","1">> }

VersionDirs == { <<"v","2","0","1","8","0","7","0","1">>, <<"v","1">>, <<"l","a","t","e","s","t">> }

GridDirs == { <<"g","n">>, <<"g","r">> }

Cmip6Names(member) ==
    { join(<<"_">>, <<<<"t","a","s">>, <<"A","m","o","n">>, <<"C","M","4">>, <<"s","s","p","5","8","5">>, member, <<"g","n">>, <<"2","0","1","5","0","1","-","2","1","0","0","1","2">>>>) \o <<".","n","c">>,
      join(<<"_">>, <<<<"t","a","s">>, <<"A","m","o","n">>, <<"C","M","4">>, <<"s","s","p","5","8","5">>, member, <<"g","n">>>>) \o <<".","n","c">>,
      join(<<"_">>, <<<<"t","a","s">>, <<"A","m","o","n">>, <<"C","M","4">>, <<"s","s","p","5","8","5">>, member>>) \o <<".","n","c">>,
      join(<<"_">>, <<<<"t","a","s">>, <<"A","m","o","n">>, <<"C","M","4">>, <<"s","s","p","5","8","5">>, member, <<"g","n">>, <<"2","0","1","5","0","1","-","2","1","0","0","1","2">>>>) }

Cmip6Layout(member, grid, version) ==
    <<<<"C","M","I","P","6">>, <<"S","c","e","n","a","r","i","o","M","I","P">>, <<"N","O","A","A">>, <<"C","M","4">>, <<"s","s","p","5","8","5">>, member, <<"A","m","o","n">>, <<"t","a","s">>, grid, version>>

Cmip6Paths ==
    UNION { { PathOf(DropLevels(Cmip6Layout(m, x[1], x[2]), x[3], 1), x[4]) :
                x \in GridDirs \X VersionDirs \X DropSets(10) \X Cmip6Names(m) } :
            m \in Members }

FreqDirs == { <<"m","o","n">>, <<"m","o","n","t","h","l","y">> }

RealmDirs == { <<"a","t","m","o","s">>, <<"l","a","n","d","I","c","e">> }

Cmip5Names ==
    { join(<<"_">>, <<<<"t","a","s">>, <<"A","m","o","n">>, <<"C","M","3">>, <<"r","c","p","8","5">>, <<"r","1","i","1","p","1">>, <<"2","0","0","6","0","1","-","2","1","0","0","1","2">>>>) \o <<".","n","c">>,
      join(<<"_">>, <<<<"t","a","s">>, <<"A","m","o","n">>, <<"C","M","3">>, <<"r","c","p","8","5">>, <<"r","1","i","1","p","1">>>>) \o <<".","n","c">>,
      join(<<"_">>, <<<<"t","a","s">>, <<"A","m","o","n">>, <<"C","M","3">>, <<"r","c","p","8","5">>>>) \o <<".","n","c">> }

Cmip5Layout(freq, realm, version) ==
    <<<<"o","u","t","p","u","t","1">>, <<"N","O","A","A">>, <<"C","M","3">>, <<"r","c","p","8","5">>, freq, realm, <<"A","m","o","n">>, <<"r","1","i","1","p","1">>, version, <<"t","a","s">>>>

Cmip5Paths ==
    { PathOf(DropLevels(Cmip5Layout(x[1], x[2], x[3]), x[4], 1), x[5]) :
        x \in FreqDirs \X RealmDirs \X VersionDirs \X DropSets(10) \X Cmip5Names }

InputPaths == Cmip6Paths \cup Cmip5Paths

(***************************************************************************)
(* The parsers as a state machine: one call of one parser on one path.     *)
(***************************************************************************)
PickIdle ==
    /\ df = <<>> /\ groups = <<>> /\ idx_to_remove = <<>> /\ df_out = <<>>
    /\ kpc = "idle"

BuildIdle ==
    /\ args = <<>> /\ filelist = <<>> /\ cat = <<>> /\ activity_ids = {}
    /\ traversed = FALSE
    /\ steps = <<>> /\ err = NoError /\ bpc = "idle"

ParseIdle ==
    /\ filepath = <<>> /\ fileparts = EmptyDict /\ raised = 0 /\ ppc = "idle"

InitParse ==
    /\ filepath \in InputPaths
    /\ fileparts = EmptyDict
    /\ raised = 0
    /\ ppc = "input"
    /\ PickIdle
    /\ BuildIdle

CallCmip6Parser ==
    /\ ppc = "input"
    /\ LET returned == cmip6_run(filepath)
       IN /\ fileparts' = returned.fileparts
          /\ raised' = returned.raised
    /\ ppc' = "cmip6"
    /\ UNCHANGED <<filepath, pickVars, buildVars>>

CallCmip5Parser ==
    /\ ppc = "input"
    /\ LET returned == cmip5_run(filepath)
       IN /\ fileparts' = returned.fileparts
          /\ raised' = returned.raised
    /\ ppc' = "cmip5"
    /\ UNCHANGED <<filepath, pickVars, buildVars>>

NextParse == CallCmip6Parser \/ CallCmip5Parser

SpecParse == InitParse /\ [][NextParse]_vars

(***************************************************************************)
(* pandas frames: a frame is a sequence of [index |-> label, row |-> r],   *)
(* r a mapping from the column names to values.                            *)
(***************************************************************************)
Columns(frame) == IF frame = <<>> THEN {} ELSE DOMAIN frame[1].row

IndexOf(frame) == {frame[i].index : i \in 1..Len(frame)}

RECURSIVE SeqOfSet(_)
\* the elements of a set of integers, ascending
SeqOfSet(S) == IF S = {} THEN <<>> ELSE <<SetMin(S)>> \o SeqOfSet(S \ {SetMin(S)})

RemoveAt(frame, i) == SubSeq(frame, 1, i - 1) \o SubSeq(frame, i + 1, Len(frame))

\* a sorts strictly before b; missing values sort last in both directions
SortsBefore(a, b, ascending) ==
    /\ ~isna(a)
    /\ \/ isna(b)
       \/ IF ascending THEN StrLess(a, b) ELSE StrLess(b, a)

RECURSIVE sort_values(_, _, _)
\* DataFrame.sort_values(by=[by], ascending=ascending); rows with equal
\* values keep their order (the sort numpy applies to frames of this size)
sort_values(frame, by, ascending) ==
    IF frame = <<>> THEN <<>>
    ELSE LET first == SetMin({i \in 1..Len(frame) :
                        \A j \in 1..Len(frame) :
                            ~SortsBefore(frame[j].row[by], frame[i].row[by], ascending)})
         IN <<frame[first]>> \o sort_values(RemoveAt(frame, first), by, ascending)

\* Series.nunique(): the number of distinct values, missing values not counted
nunique(frame, column) ==
    Cardinality({frame[i].row[column] : i \in 1..Len(frame)} \ {None, NaN})

\* DataFrame.drop(index=labels)
drop(frame, labels) == SelectSeq(frame, LAMBDA e : e.index \notin labels)

SeqRange(s) == {s[i] : i \in 1..Len(s)}

(***************************************************************************)
(* _pick_latest_version                                                    *)
(***************************************************************************)
\* line 106
grpby(frame) == Columns(frame) \ {"path", "version"}

GroupKey(row, by) == [c \in by |-> row[c]]

HasMissingKey(row, by) == \E c \in by : isna(row[c])

\* DataFrame.groupby(by): rows holding a missing value in a key column belong
\* to no group (dropna=True); the groups are listed in the order of their
\* first row (the order of pandas follows the order of the list built from a
\* set on line 106, and only decides the order of the concatenation)
groupby(frame, by) ==
    LET keyed == {i \in 1..Len(frame) : ~HasMissingKey(frame[i].row, by)}
        firsts == {i \in keyed : \A j \in keyed :
                      j < i => GroupKey(frame[j].row, by) # GroupKey(frame[i].row, by)}
        order == SeqOfSet(firsts)
    IN [g \in 1..Len(order) |->
          SelectSeq(frame, LAMBDA e :
              /\ ~HasMissingKey(e.row, by)
              /\ GroupKey(e.row, by) = GroupKey(frame[order[g]].row, by))]

\* a faulty variant of pick_latest_v without the nunique guard of line 112
pick_latest_v_no_guard(group) ==
    LET sorted == sort_values(group, "version", FALSE)
    IN [i \in 1..(Len(sorted) - 1) |-> sorted[i + 1].index]

\* a faulty variant of pick_latest_v that sorts the frame df of the
\* enclosing function instead of its own group
pick_latest_v_whole_frame(group) ==
    IF nunique(group, "version") > 1
    THEN LET sorted == sort_values(df, "version", FALSE)
         IN [i \in 1..(Len(sorted) - 1) |-> sorted[i + 1].index]
    ELSE <<>>

\* lines 110-114: the task of one group
pick_latest_v(group) ==
    IF nunique(group, "version") > 1
    THEN LET sorted == sort_values(group, "version", FALSE)
         IN [i \in 1..(Len(sorted) - 1) |-> sorted[i + 1].index]
    ELSE <<>>

\* a delayed task: not yet computed, or computed with the list it returned
Pending == [computed |-> FALSE, idx |-> <<>>]

Computed(idx) == [computed |-> TRUE, idx |-> idx]

\* itertools.chain(*idx_to_remove), as the set of labels df.drop receives
chain(lists) == UNION {SeqRange(lists[g].idx) : g \in 1..Len(lists)}

\* the whole function, for callers
pick_latest_version(frame) ==
    LET gs == groupby(frame, grpby(frame))
    IN drop(frame, chain([g \in 1..Len(gs) |-> Computed(pick_latest_v(gs[g]))]))

(***************************************************************************)
(* Frames given to _pick_latest_version: rows of the CMIP6 schema, with    *)
(* labels left over from a frame of MaxRows rows.                          *)
(***************************************************************************)
PickVersions == { <<"v","0">>, <<"v","3">>, <<"v","2","0","1","8","0","7","0","1">>, <<"v","2","0","1","9","0","1","0","1">> }

PickVariables == { <<"t","a","s">>, <<"p","r">> }

PickInitYears == { NaN, Float(1960) }

PickPath(label) == <<"/","d","a","t","a","/","f">> \o <<label>> \o <<".","n","c">>

PickRow(variable, year, version, label) ==
    [activity_id |-> <<"C","M","I","P">>, institution_id |-> <<"N","O","A","A">>, source_id |-> <<"C","M","4">>,
     experiment_id |-> <<"s","s","p","5","8","5">>, member_id |-> <<"r","1","i","1","p","1","f","1">>, table_id |-> <<"A","m","o","n">>,
     variable_id |-> variable, grid_label |-> <<"g","n">>, dcpp_init_year |-> year,
     version |-> version, time_range |-> <<"2","0","1","5","0","1","-","2","1","0","0","1","2">>, path |-> PickPath(label)]

LabelChars == <<"0", "1", "2", "3", "4", "5", "6", "7", "8", "9">>

\* per label, a row or Absent
Absent == <<"absent">>

PickChoices ==
    [0..(MaxRows - 1) ->
        {Absent} \cup (PickVariables \X PickInitYears \X PickVersions)]

FrameOf(choice) ==
    LET present == SeqOfSet({l \in DOMAIN choice : choice[l] # Absent})
    IN [i \in 1..Len(present) |->
          [index |-> present[i],
           row |-> PickRow(choice[present[i]][1], choice[present[i]][2],
                           choice[present[i]][3], LabelChars[present[i] + 1])]]

InitPick ==
    /\ df \in {FrameOf(c) : c \in PickChoices}
    /\ groups = <<>>
    /\ idx_to_remove = <<>>
    /\ df_out = <<>>
    /\ kpc = "call"
    /\ ParseIdle
    /\ BuildIdle

\* lines 106-116: group the frame and create one delayed task per group
CreateTasks ==
    /\ kpc = "call"
    /\ groups' = groupby(df, grpby(df))
    /\ idx_to_remove' = [g \in 1..Len(groupby(df, grpby(df))) |-> Pending]
    /\ kpc' = "tasks"
    /\ UNCHANGED <<df, df_out, parseVars, buildVars>>

\* dask.compute runs the tasks in any order: the task of group g
RunTask(g) ==
    /\ kpc = "tasks"
    /\ ~idx_to_remove[g].computed
    /\ idx_to_remove' = [idx_to_remove EXCEPT ![g] = Computed(pick_latest_v(groups[g]))]
    /\ UNCHANGED <<df, groups, df_out, kpc, parseVars, buildVars>>

\* lines 119-124: all tasks have returned; chain the lists and drop
DropRows ==
    /\ kpc = "tasks"
    /\ \A g \in 1..Len(idx_to_remove) : idx_to_remove[g].computed
    /\ df_out' = drop(df, chain(idx_to_remove))
    /\ kpc' = "done"
    /\ UNCHANGED <<df, groups, idx_to_remove, parseVars, buildVars>>

NextPick ==
    \/ CreateTasks
    \/ \E g \in 1..Len(idx_to_remove) : RunTask(g)
    \/ DropRows

SpecPick == InitPick /\ [][NextPick]_vars

(***************************************************************************)
(* build_cmip and cli                                                      *)
(***************************************************************************)
PyInt(n) == <<"int", n>>

\* str(cmip_version), for None and for the one-digit integers
str(v) == IF v = None THEN <<"N","o","n","e">> ELSE <<LabelChars[v[2] + 1]>>

\* line 135
parsers == (<<"6">> :> "cmip6_parser" @@ <<"5">> :> "cmip5_parser")

\* lines 136-165
cmip_columns ==
    (<<"6">> :> <<"activity_id", "institution_id", "source_id", "experiment_id",
              "member_id", "table_id", "variable_id", "grid_label",
              "dcpp_init_year", "version", "time_range", "path">>
     @@
     <<"5">> :> <<"product_id", "institute", "model", "experiment", "frequency",
              "modeling_realm", "mip_table", "ensemble_member", "variable",
              "temporal_subset", "version", "path">>)

\* line 132
exclude_patterns == << <<"/","f","i","l","e","s","/">>, <<"/","l","a","t","e","s","t","/">> >>

CallParser(parser, path) ==
    IF parser = "cmip6_parser" THEN cmip6_parser(path) ELSE cmip5_parser(path)

\* fnmatch of a pattern "*<middle>*"
Excluded(path, patterns) == \E i \in 1..Len(patterns) : find(path, patterns[i]) # 0

\* core.Builder(columns, exclude_patterns)(filelist, parser): one row per
\* path that no pattern excludes, projected onto columns, labelled 0, 1, ...
Builder(columns, patterns, files, parser) ==
    LET kept == SelectSeq(files, LAMBDA p : ~Excluded(p, patterns))
    IN [i \in 1..Len(kept) |->
          LET entry == CallParser(parser, kept[i])
          IN [index |-> i - 1,
              row |-> [c \in SeqRange(columns) |->
                         IF c \in DOMAIN entry THEN entry[c] ELSE NaN]]]

\* a faulty variant of isin_filter that keeps the rows without activity_id
isin_filter_keeps_missing(frame, values) ==
    SelectSeq(frame, LAMBDA e :
        e.row["activity_id"] \in values \/ isna(e.row["activity_id"]))

\* df[df.activity_id.isin(activity_ids)]
isin_filter(frame, values) ==
    SelectSeq(frame, LAMBDA e : e.row["activity_id"] \in values)

(***************************************************************************)
(* Inputs of a run                                                         *)
(***************************************************************************)
AssetPath(activity, member, version) ==
    PathOf(<<<<"C","M","I","P","6">>, activity, <<"N","O","A","A">>, <<"C","M","4">>, <<"s","s","p","5","8","5">>, member, <<"A","m","o","n">>, <<"t","a","s">>,
             <<"g","n">>, version>>,
           join(<<"_">>, <<<<"t","a","s">>, <<"A","m","o","n">>, <<"C","M","4">>, <<"s","s","p","5","8","5">>, member, <<"g","n">>,
                           <<"2","0","1","5","0","1","-","2","1","0","0","1","2">>>>) \o <<".","n","c">>)

Assets ==
    { AssetPath(<<"D","C","P","P">>, <<"s","1","9","6","0","-","r","2","i","1","p","1","f","1">>, <<"v","2","0","1","8","0","7","0","1">>),
      AssetPath(<<"D","C","P","P">>, <<"s","1","9","6","0","-","r","2","i","1","p","1","f","1">>, <<"v","2","0","1","9","0","1","0","1">>),
      AssetPath(<<"S","c","e","n","a","r","i","o","M","I","P">>, <<"r","1","i","1","p","1","f","1">>, <<"v","2","0","1","8","0","7","0","1">>),
      AssetPath(<<"B","a","d","M","I","P">>, <<"r","1","i","1","p","1","f","1">>, <<"v","2","0","1","8","0","7","0","1">>),
      AssetPath(<<"S","c","e","n","a","r","i","o","M","I","P">>, <<"r","1","i","1","p","1","f","1">>, <<"l","a","t","e","s","t">>),
      PathOf(<<<<"C","M","I","P","6">>, <<"S","c","e","n","a","r","i","o","M","I","P">>, <<"N","O","A","A">>, <<"C","M","4">>, <<"s","s","p","5","8","5">>, <<"r","1","i","1","p","1","f","1">>, <<"A","m","o","n">>>>,
             <<"t","a","s","_","A","m","o","n","_","C","M","4","_","s","s","p","5","8","5","_","r","1","i","1","p","1","f","1","_","g","n",".","n","c">>),
      PathOf(<<<<"o","u","t","p","u","t","1">>, <<"N","O","A","A">>, <<"C","M","3">>, <<"r","c","p","8","5">>, <<"m","o","n">>, <<"a","t","m","o","s">>, <<"A","m","o","n">>,
               <<"r","1","i","1","p","1">>, <<"v","1">>, <<"t","a","s">>>>,
             <<"t","a","s","_","A","m","o","n","_","C","M","3","_","r","c","p","8","5","_","r","1","i","1","p","1","_","2","0","0","6","0","1","-","2","1","0","0","1","2",".","n","c">>) }

\* the lists get_asset_list may return: distinct paths, at most MaxFiles
FileLists ==
    UNION { { fs \in [1..n -> Assets] : \A i, j \in 1..n : fs[i] = fs[j] => i = j } :
            n \in 0..MaxFiles }

ColumnOverrides ==
    { None,
      <<"activity_id", "variable_id", "dcpp_init_year", "version", "path">>,
      <<"variable_id", "version", "path">> }

\* the key sets the controlled-vocabulary document may hold
VocabularyDocs == { {<<"S","c","e","n","a","r","i","o","M","I","P">>, <<"D","C","P","P">>}, {<<"D","C","P","P">>} }

CmipVersions == { PyInt(5), PyInt(6), PyInt(7), None }

CliArgs ==
    [entry : {"cli"}, cmip_version : CmipVersions, csv_filepath : {None, <<"c",".","c","s","v",".","g","z">>},
     columns : {None}, pick_latest_version : BOOLEAN]

DirectArgs ==
    [entry : {"build_cmip"}, cmip_version : CmipVersions, csv_filepath : {None},
     columns : ColumnOverrides, pick_latest_version : BOOLEAN]

InitBuild ==
    /\ args \in CliArgs \cup DirectArgs
    /\ bpc = args.entry
    /\ filelist = <<>>
    /\ cat = <<>>
    /\ activity_ids = {}
    /\ traversed = FALSE
    /\ steps = <<>>
    /\ err = NoError
    /\ ParseIdle
    /\ PickIdle

\* lines 169-170: the columns of the frame
BuildColumns ==
    IF args.columns = None THEN cmip_columns[str(args.cmip_version)] ELSE args.columns

Raise(exception) ==
    /\ err' = exception
    /\ bpc' = "raised"

\* a faulty variant of cli without the check of lines 211-214
cli_no_version_check ==
    /\ bpc = "cli"
    /\ IF args.csv_filepath = None THEN Raise("ValueError")
       ELSE /\ err' = err
            /\ bpc' = "build_cmip"
    /\ UNCHANGED <<args, filelist, cat, activity_ids, traversed, steps, parseVars, pickVars>>

\* cli, lines 211-219: the two checks, then the call of build_cmip
cli ==
    /\ bpc = "cli"
    /\ IF args.cmip_version \notin {PyInt(5), PyInt(6)} THEN Raise("ValueError")
       ELSE IF args.csv_filepath = None THEN Raise("ValueError")
       ELSE /\ err' = err
            /\ bpc' = "build_cmip"
    /\ UNCHANGED <<args, filelist, cat, activity_ids, traversed, steps, parseVars, pickVars>>

\* build_cmip, line 167
get_asset_list ==
    /\ bpc = "build_cmip"
    /\ filelist' \in FileLists
    /\ traversed' = TRUE
    /\ steps' = Append(steps, "get_asset_list")
    /\ bpc' = "listed"
    /\ UNCHANGED <<args, cat, activity_ids, err, parseVars, pickVars>>

\* build_cmip, lines 168-172
build_frame ==
    /\ bpc = "listed"
    /\ LET cmip_version == str(args.cmip_version)
       IN IF args.columns = None /\ cmip_version \notin DOMAIN cmip_columns
          THEN Raise("KeyError") /\ UNCHANGED <<cat, steps>>
          ELSE IF cmip_version \notin DOMAIN parsers
          THEN Raise("KeyError") /\ UNCHANGED <<cat, steps>>
          ELSE /\ cat' = Builder(BuildColumns, exclude_patterns, filelist,
                                 parsers[cmip_version])
               /\ steps' = Append(steps, "Builder")
               /\ err' = err
               /\ bpc' = IF cmip_version = <<"6">> THEN "fetch" ELSE "select"
    /\ UNCHANGED <<args, filelist, activity_ids, traversed, parseVars, pickVars>>

\* build_cmip, lines 179-182, the document arrives
fetch_and_filter ==
    /\ bpc = "fetch"
    /\ \E keys \in VocabularyDocs :
          /\ activity_ids' = keys
          /\ IF "activity_id" \notin SeqRange(BuildColumns)
             THEN /\ Raise("AttributeError")
                  /\ steps' = Append(steps, "requests.get")
                  /\ cat' = cat
             ELSE /\ cat' = isin_filter(cat, keys)
                  /\ steps' = steps \o <<"requests.get", "isin">>
                  /\ err' = err
                  /\ bpc' = "select"
    /\ UNCHANGED <<args, filelist, traversed, parseVars, pickVars>>

\* a variant of fetch_fails that guards the fetch: the failure is recorded
\* and the run goes on without filtering
fetch_fails_fallback ==
    /\ bpc = "fetch"
    /\ err' = "ConnectionError"
    /\ bpc' = "select"
    /\ steps' = Append(steps, "requests.get")
    /\ UNCHANGED <<args, filelist, cat, activity_ids, traversed, parseVars, pickVars>>

\* build_cmip, lines 179-180, requests.get or resp.json() raises
fetch_fails ==
    /\ bpc = "fetch"
    /\ Raise("ConnectionError")
    /\ steps' = Append(steps, "requests.get")
    /\ UNCHANGED <<args, filelist, cat, activity_ids, traversed, parseVars, pickVars>>

\* build_cmip, lines 183-184
select_versions ==
    /\ bpc = "select"
    /\ args.pick_latest_version
    /\ cat' = pick_latest_version(cat)
    /\ steps' = Append(steps, "_pick_latest_version")
    /\ bpc' = "sort"
    /\ UNCHANGED <<args, filelist, activity_ids, traversed, err, parseVars, pickVars>>

\* build_cmip, line 185
sort_and_return ==
    /\ bpc = "sort" \/ (bpc = "select" /\ ~args.pick_latest_version)
    /\ cat' = sort_values(cat, "path", TRUE)
    /\ steps' = Append(steps, "sort_values")
    /\ bpc' = IF args.entry = "cli" THEN "write" ELSE "returned"
    /\ UNCHANGED <<args, filelist, activity_ids, traversed, err, parseVars, pickVars>>

\* cli, line 221
to_csv ==
    /\ bpc = "write"
    /\ steps' = Append(steps, "to_csv")
    /\ bpc' = "written"
    /\ UNCHANGED <<args, filelist, cat, activity_ids, traversed, err, parseVars, pickVars>>

NextBuild ==
    \/ cli
    \/ get_asset_list
    \/ build_frame
    \/ fetch_and_filter
    \/ fetch_fails
    \/ select_versions
    \/ sort_and_return
    \/ to_csv

SpecBuild == InitBuild /\ [][NextBuild]_vars

(***************************************************************************)
(* Properties of the parsers (SpecParse)                                   *)
(***************************************************************************)
\* what reverse_filename_format bound on line 39
MatcherResult == reverse_filename_format(basename(filepath), cmip6_templates)

\* the string the version regex is searched in: parent (line 49) or filepath (line 87)
VersionHaystack == IF ppc = "cmip6" THEN strip(dirname(filepath), {"/"}) ELSE filepath

HasPathAndVersion ==
    /\ "path" \in DOMAIN fileparts
    /\ fileparts["path"] = filepath
    /\ "version" \in DOMAIN fileparts
    /\ fileparts["version"] =
          IF re_search(version_regex, VersionHaystack) = None THEN v0
          ELSE re_search(version_regex, VersionHaystack)

\* C2, as stated: the mapping returned by cmip6_parser and by cmip5_parser
\* always holds path, equal to the input path, and version, 'v0' when the
\* path holds no version token.
C2_AsStated == ppc \in {"cmip6", "cmip5"} => HasPathAndVersion

\* C2, amended: the mapping of cmip5_parser always holds path (the input path)
\* and version (the token found in the path, 'v0' when there is none); the
\* mapping of cmip6_parser holds both when no step of lines 41-47 raised, and
\* holds neither of them otherwise.
C2_PathAndVersion ==
    /\ ppc = "cmip5" => HasPathAndVersion
    /\ ppc = "cmip6" =>
          IF raised \in {0, 53} THEN HasPathAndVersion
          ELSE "path" \notin DOMAIN fileparts /\ "version" \notin DOMAIN fileparts

\* C2 witness: cmip6_parser returned for a filename no template matches, and
\* the mapping is empty.
C2_Witness == ppc = "cmip6" /\ raised = 42 /\ fileparts = EmptyDict

\* label is the directory right below the variable_id directory
IsDirectoryGridLabel(label) ==
    find(dirname(filepath) \o Slash,
         Slash \o MatcherResult["variable_id"] \o Slash \o label \o Slash) # 0

\* C8, as stated: whenever a step of the directory-derived block raises, the
\* mapping returned is exactly the mapping of the filename matcher.
C8_AsStated == (ppc = "cmip6" /\ raised # 0) => fileparts = MatcherResult

\* C8, amended: whenever a step of the directory-derived block raises, the
\* exception is caught and every field the matcher bound is returned, with
\* its matcher value except for grid_label.  When the matcher bound nothing
\* or the variable_id directory is not found (lines 42-44), the mapping is
\* exactly the matcher's.  When fewer than two segments precede the source_id
\* directory (line 46), grid_label is the directory's and no other field is
\* added.  When the member_id prefix is not a number (line 53), grid_label is
\* the directory's, activity_id, institution_id, version and path are
\* present, member_id keeps its matcher value and dcpp_init_year is absent.
C8_PartialMapping ==
    (ppc = "cmip6" /\ raised # 0) =>
        /\ \A k \in DOMAIN MatcherResult :
              /\ k \in DOMAIN fileparts
              /\ k # "grid_label" => fileparts[k] = MatcherResult[k]
        /\ raised \in {42, 44} => fileparts = MatcherResult
        /\ raised = 46 =>
              /\ DOMAIN fileparts = DOMAIN MatcherResult
              /\ IsDirectoryGridLabel(fileparts["grid_label"])
        /\ raised = 53 =>
              /\ DOMAIN fileparts = DOMAIN MatcherResult \cup
                    {"activity_id", "institution_id", "version", "path"}
              /\ IsDirectoryGridLabel(fileparts["grid_label"])
              /\ fileparts["path"] = filepath
        /\ raised \in {42, 44, 46, 53}

\* C8 witness: the conversion of the member_id prefix raised, and the
\* mapping holds a version and a directory grid_label that differs from the
\* filename's.
C8_Witness ==
    /\ ppc = "cmip6"
    /\ raised = 53
    /\ "version" \in DOMAIN fileparts
    /\ fileparts["grid_label"] # MatcherResult["grid_label"]

\* the text between the leading character and the first '-' of member
YearText(member) ==
    SubSeq(member, 2, IF find(member, <<"-">>) = 0 THEN Len(member)
                      ELSE find(member, <<"-">>) - 1)

AfterFirstDash(member) == SubSeq(member, find(member, <<"-">>) + 1, Len(member))

AfterLastDash(member) == SubSeq(member, rfind(member, "-") + 1, Len(member))

ValueOrMissing(d, k) == IF k \in DOMAIN d THEN d[k] ELSE NaN

\* C10, as stated: for every returned mapping whose matcher-derived member_id
\* begins with 's', member_id is the part after the '-' and dcpp_init_year is
\* the number formed by the part before the '-' without the 's'; for every
\* other member_id, member_id is unchanged and dcpp_init_year is missing.
C10_AsStated ==
    (ppc = "cmip6" /\ "member_id" \in DOMAIN MatcherResult) =>
        LET member == MatcherResult["member_id"]
        IN IF startswith(member, <<"s">>)
           THEN /\ FloatConverts(YearText(member))
                /\ ValueOrMissing(fileparts, "dcpp_init_year") =
                      Float(DecimalValue(YearText(member)))
                /\ fileparts["member_id"] \in {AfterFirstDash(member), AfterLastDash(member)}
           ELSE /\ fileparts["member_id"] = member
                /\ ValueOrMissing(fileparts, "dcpp_init_year") = NaN

\* C10, amended: when the directory-derived steps of lines 41-51 raised
\* nothing and the matcher-derived member_id begins with 's': if the text
\* between the 's' and the first '-' converts to a number, dcpp_init_year is
\* that number and member_id is the part after the last '-' (the whole
\* member_id when it holds no '-'); if it does not convert, member_id is
\* unchanged and dcpp_init_year is absent.  When they raised nothing and
\* member_id does not begin with 's', member_id is unchanged and
\* dcpp_init_year is NaN.  When one of them raised, member_id is unchanged
\* and dcpp_init_year is absent.
C10_MemberStep ==
    (ppc = "cmip6" /\ "member_id" \in DOMAIN MatcherResult) =>
        LET member == MatcherResult["member_id"]
        IN IF "path" \notin DOMAIN fileparts
           THEN /\ fileparts["member_id"] = member
                /\ "dcpp_init_year" \notin DOMAIN fileparts
           ELSE IF ~startswith(member, <<"s">>)
           THEN /\ fileparts["member_id"] = member
                /\ "dcpp_init_year" \in DOMAIN fileparts
                /\ fileparts["dcpp_init_year"] = NaN
           ELSE IF FloatConverts(YearText(member))
           THEN /\ fileparts["member_id"] = AfterLastDash(member)
                /\ "dcpp_init_year" \in DOMAIN fileparts
                /\ fileparts["dcpp_init_year"] = Float(DecimalValue(YearText(member)))
           ELSE /\ fileparts["member_id"] = member
                /\ "dcpp_init_year" \notin DOMAIN fileparts

\* C10 witness: member_id s1960-r2i1p1f1 was decomposed into year 1960 and
\* member r2i1p1f1.
C10_Witness ==
    /\ ppc = "cmip6"
    /\ "member_id" \in DOMAIN MatcherResult
    /\ MatcherResult["member_id"] = <<"s","1","9","6","0","-","r","2","i","1","p","1","f","1">>
    /\ "dcpp_init_year" \in DOMAIN fileparts
    /\ fileparts["dcpp_init_year"] = Float(1960)
    /\ fileparts["member_id"] = <<"r","2","i","1","p","1","f","1">>

(***************************************************************************)
(* Properties of _pick_latest_version (SpecPick)                           *)
(***************************************************************************)
Survives(e) == \E i \in 1..Len(df_out) : df_out[i] = e

\* the positions of the rows equal to row i on every column but path and
\* version, the missing-value marker being equal to itself
LogicalGroup(i) ==
    {j \in 1..Len(df) : GroupKey(df[j].row, grpby(df)) = GroupKey(df[i].row, grpby(df))}

VersionsOf(positions) == {df[j].row["version"] : j \in positions}

\* C1, as stated: after selection every group of rows equal on all columns
\* but path and version has exactly one row left, and that row carries the
\* greatest version token the group had.
C1_AsStated ==
    kpc = "done" =>
        \A i \in 1..Len(df) :
            LET left == {j \in LogicalGroup(i) : Survives(df[j])}
            IN /\ Cardinality(left) = 1
               /\ \A j \in left : \A v \in VersionsOf(LogicalGroup(i)) :
                     ~StrLess(df[j].row["version"], v)

\* the order the specification gives: a date-coded token above every
\* single-digit token, date-coded tokens by their date, v0 lowest
ClaimedRank(v) ==
    IF Len(v) = 9 THEN 10 + DecimalValue(Tail(v)) ELSE DecimalValue(Tail(v))

\* C7, as stated: in every group with more than one distinct version the row
\* kept is the top one in the order that puts every date-coded token above
\* every single-digit token, date-coded tokens by date, and v0 last.
C7_AsStated ==
    kpc = "done" =>
        \A g \in 1..Len(groups) :
            nunique(groups[g], "version") > 1 =>
                LET left == {i \in 1..Len(groups[g]) : Survives(groups[g][i])}
                IN /\ Cardinality(left) = 1
                   /\ \A i \in left : \A j \in 1..Len(groups[g]) :
                         ClaimedRank(groups[g][i].row["version"]) >=
                         ClaimedRank(groups[g][j].row["version"])

\* C9: every group with a single distinct version value is left untouched:
\* all its rows, one or several, are in the frame returned, with the label
\* and the field values they had.
C9_SingleVersionUntouched ==
    kpc = "done" =>
        \A i \in 1..Len(df) :
            Cardinality(VersionsOf(LogicalGroup(i))) = 1 => Survives(df[i])

\* C9 witness: a group of two rows with one version and two paths went
\* through its task, and both rows are in the frame returned.
C9_Witness ==
    /\ kpc = "done"
    /\ \E g \in 1..Len(groups) :
          /\ Len(groups[g]) >= 2
          /\ nunique(groups[g], "version") = 1
          /\ idx_to_remove[g].computed
          /\ \A i \in 1..Len(groups[g]) : Survives(groups[g][i])

\* C5: the tasks may run in any order: the list of a task holds labels of
\* its own group only and is the function pick_latest_v of that group
\* alone, the groups and hence the lists of two tasks are disjoint, and
\* the rows dropped at the end are the union of the lists, whatever the
\* order the tasks ran in.
C5_TasksIndependent ==
    kpc \in {"tasks", "done"} =>
        /\ \A g \in 1..Len(groups) :
              idx_to_remove[g].computed =>
                  /\ SeqRange(idx_to_remove[g].idx) \subseteq IndexOf(groups[g])
                  /\ idx_to_remove[g].idx = pick_latest_v(groups[g])
        /\ \A g, h \in 1..Len(groups) :
              g # h =>
                  /\ IndexOf(groups[g]) \cap IndexOf(groups[h]) = {}
                  /\ SeqRange(idx_to_remove[g].idx) \cap SeqRange(idx_to_remove[h].idx) = {}
        /\ kpc = "done" =>
              /\ IndexOf(df_out) = IndexOf(df) \ chain(idx_to_remove)
              /\ df_out = pick_latest_version(df)

\* C5 witness: the task of the second group returned a non-empty list while
\* the task of the first group has not run yet.
C5_Witness ==
    /\ kpc = "tasks"
    /\ Len(groups) >= 2
    /\ ~idx_to_remove[1].computed
    /\ idx_to_remove[2].computed
    /\ idx_to_remove[2].idx # <<>>

(***************************************************************************)
(* Properties of build_cmip and cli (SpecBuild)                            *)
(***************************************************************************)
UnsupportedVersion == args.cmip_version \notin {PyInt(5), PyInt(6)}

Version6 == str(args.cmip_version) = <<"6">>

AfterFilter == bpc \in {"select", "sort", "returned", "write", "written"}

\* C3: in a run for cmip_version 6, with or without version selection, from
\* the vocabulary filter on every row of the frame has an activity_id that is
\* a key of the fetched document; rows with another or a missing activity_id
\* are gone and no exception was raised.
C3_OnlyPermittedActivities ==
    (Version6 /\ AfterFilter) =>
        /\ err = NoError
        /\ \A i \in 1..Len(cat) :
              /\ ~isna(cat[i].row["activity_id"])
              /\ cat[i].row["activity_id"] \in activity_ids

\* C3 witness: a catalog was returned after version selection, it holds a
\* row, and a file whose activity_id is missing was dropped.
C3_Witness ==
    /\ Version6
    /\ bpc = "returned"
    /\ args.pick_latest_version
    /\ Len(cat) >= 1
    /\ \E i \in 1..Len(filelist) :
          /\ ~Excluded(filelist[i], exclude_patterns)
          /\ "activity_id" \notin DOMAIN cmip6_parser(filelist[i])

\* C4, as stated: an unsupported convention identifier (cli and build_cmip)
\* or a missing output path (cli) makes the run fail before get_asset_list
\* is started.
C4_AsStated ==
    (UnsupportedVersion \/ (args.entry = "cli" /\ args.csv_filepath = None))
        => ~traversed

\* C4, amended: through cli, an unsupported convention identifier or a
\* missing output path ends the run with a ValueError before get_asset_list
\* is started.  A direct call of build_cmip with an unsupported identifier
\* fails as well, with or without a columns override, but with a KeyError
\* raised after get_asset_list has run and before any file is parsed.
C4_FailsEarly ==
    /\ (args.entry = "cli" /\ (UnsupportedVersion \/ args.csv_filepath = None)) =>
          /\ ~traversed
          /\ bpc \in {"cli", "raised"}
          /\ bpc = "raised" => err = "ValueError"
    /\ (args.entry = "build_cmip" /\ UnsupportedVersion) =>
          /\ bpc \in {"build_cmip", "listed", "raised"}
          /\ cat = <<>>
          /\ bpc = "raised" => (traversed /\ err = "KeyError")

\* C4 witness: a direct call with an unsupported identifier and a columns
\* override has failed, after the traversal.
C4_Witness ==
    /\ args.entry = "build_cmip"
    /\ UnsupportedVersion
    /\ args.columns # None
    /\ bpc = "raised"
    /\ traversed

\* C6: a failed fetch of the controlled vocabulary ends the run: the step
\* that fails leaves the frame as it was, is the only fetch attempted and
\* raises to the caller, and no step (filter, version selection, sort,
\* return) follows it.
C6_FetchFailureIsHard ==
    [][ /\ err # "ConnectionError"
        /\ err' = "ConnectionError" =>
              /\ bpc = "fetch"
              /\ bpc' = "raised"
              /\ cat' = cat
              /\ steps' = Append(steps, "requests.get")
              /\ \A i \in 1..Len(steps) :
                    steps[i] \notin {"requests.get", "isin", "_pick_latest_version",
                                     "sort_values"} ]_vars

\* C6 witness: the fetch failed in a run that had built rows and asked for
\* version selection.
C6_Witness ==
    /\ err = "ConnectionError"
    /\ bpc = "raised"
    /\ Len(cat) >= 1
    /\ args.pick_latest_version

====
